---- MODULE Spec2Model ----
(***************************************************************************)
(* Model of src/process_data.py: the Lambda handler that, on an S3         *)
(* object-created notification, reads the object, decodes it as UTF-8,     *)
(* uppercases the text and puts one item into the DynamoDB table           *)
(* 'processed-data'.                                                       *)
(*                                                                         *)
(* Python values are modelled as follows.  A dict is a function whose      *)
(* domain is its set of keys (the empty dict has the empty domain); a list *)
(* and a bytes object are sequences (bytes: of integers 0..255); a str is  *)
(* a sequence of Unicode code points, except the constant success message  *)
(* and its JSON encoding, which are sequences of one-character strings.    *)
(* A raised exception is the record [type, line] of its class and of the   *)
(* source line that raised it.                                             *)
(***************************************************************************)
EXTENDS Integers, Sequences, FiniteSets, TLC

VARIABLES
    bucket_objects,   \* S3: <<bucket, key>> -> bytes, for the objects that exist
    table,            \* DynamoDB table 'processed-data': the set of its items
    pc,               \* per invocation: the statement it is about to run
    event,            \* per invocation: the handler's argument
    bucket_name,      \* per invocation: local of line 9
    object_key,       \* per invocation: local of line 10
    response,         \* per invocation: the body bytes get_object returned
    data,             \* per invocation: local of line 14
    processed_data,   \* per invocation: local of line 17
    result,           \* per invocation: <<>> or <<the returned dict>>
    err,              \* per invocation: <<>> or <<the exception that ended it>>
    s3_calls,         \* per invocation: the get_object calls made, in order
    dynamodb_calls,   \* per invocation: the put_item calls made, in order
    steps,            \* per invocation: the statements run, in order
    last_put          \* object key -> the invocation whose put_item last succeeded

vars == <<bucket_objects, table, pc, event, bucket_name, object_key, response,
          data, processed_data, result, err, s3_calls, dynamodb_calls, steps,
          last_put>>

locals == <<event, bucket_name, object_key, response, data, processed_data>>

-----------------------------------------------------------------------------
(* Bounds of the model *)

\* the longest Records list of a trigger event
MaxRecords == 2
\* the most objects the buckets hold
MaxObjects == 2
\* the longest object body, in bytes, of the transform specification
MaxLen == 3

Buckets == {"b1", "b2"}
Keys == {"k1", "k2"}
Objects == Buckets \X Keys
Invocations == {"inv1", "inv2"}
\* the environment that runs one invocation at a time
SeqInv == "inv1"

\* A, a, s, and the bytes of U+00B5, U+00DF, U+00FF in UTF-8 (C2 B5, C3 9F,
\* C3 BF), and FF, which no UTF-8 text holds
ByteAlphabet == {65, 97, 115, 194, 195, 159, 181, 191, 255}

\* "aß", "Ab", and a body cut in the middle of a two-byte sequence
SampleBodies == {<<97, 195, 159>>, <<65, 98>>, <<97, 195>>}

-----------------------------------------------------------------------------
(* Python and library semantics the handler relies on *)

EmptyDict == [n \in {} |-> 0]

NoException == <<>>
Raise(type, line) == <<[type |-> type, line |-> line]>>

\* bytes.decode('utf-8'), strict: [ok, text]
RECURSIVE Utf8Decode(_)
Utf8Decode(bs) ==
    LET Cont(n) == n <= Len(bs) /\ bs[n] \in 128..191
        Rest(n, cp) ==
            LET r == Utf8Decode(SubSeq(bs, n + 1, Len(bs)))
            IN  [ok |-> r.ok, text |-> IF r.ok THEN <<cp>> \o r.text ELSE <<>>]
        Bad == [ok |-> FALSE, text |-> <<>>]
    IN  IF bs = <<>> THEN [ok |-> TRUE, text |-> <<>>]
        ELSE LET b == bs[1] IN
             IF b < 128 THEN Rest(1, b)
             ELSE IF b \in 194..223 THEN
                 IF Cont(2) THEN Rest(2, (b - 192) * 64 + (bs[2] - 128)) ELSE Bad
             ELSE IF b \in 224..239 THEN
                 IF /\ Cont(2) /\ Cont(3)
                    /\ (b = 224 => bs[2] >= 160)
                    /\ (b = 237 => bs[2] <= 159)
                 THEN Rest(3, (b - 224) * 4096 + (bs[2] - 128) * 64 + (bs[3] - 128))
                 ELSE Bad
             ELSE IF b \in 240..244 THEN
                 IF /\ Cont(2) /\ Cont(3) /\ Cont(4)
                    /\ (b = 240 => bs[2] >= 144)
                    /\ (b = 244 => bs[2] <= 143)
                 THEN Rest(4, (b - 240) * 262144 + (bs[2] - 128) * 4096
                                + (bs[3] - 128) * 64 + (bs[4] - 128))
                 ELSE Bad
             ELSE Bad

\* str.upper() of one character, for the code points U+0000..U+00FF and their
\* images (U+00B5 -> U+039C, U+00DF -> "SS", U+00FF -> U+0178)
UpperChar(c) ==
    IF c \in 97..122 THEN <<c - 32>>
    ELSE IF c = 181 THEN <<924>>
    ELSE IF c = 223 THEN <<83, 83>>
    ELSE IF c \in 224..254 /\ c # 247 THEN <<c - 32>>
    ELSE IF c = 255 THEN <<376>>
    ELSE <<c>>

\* str.upper()
RECURSIVE Upper(_)
Upper(s) == IF s = <<>> THEN <<>> ELSE UpperChar(Head(s)) \o Upper(Tail(s))

\* json.dumps of a str of printable ASCII characters
RECURSIVE JsonEscape(_)
JsonEscape(s) ==
    IF s = <<>> THEN <<>>
    ELSE (IF Head(s) \in {"\"", "\\"} THEN <<"\\", Head(s)>> ELSE <<Head(s)>>)
         \o JsonEscape(Tail(s))

JsonDumps(s) == <<"\"">> \o JsonEscape(s) \o <<"\"">>

\* the key attribute of the table 'processed-data'
HashKey == "id"

\* dynamodb.put_item: the item replaces the item with the same key, if any
PutItem(tbl, item) == {it \in tbl : it[HashKey] # item[HashKey]} \cup {item}

-----------------------------------------------------------------------------
(* The statements of lambda_handler *)

\* line 9: event['Records'][0]['s3']['bucket']['name']
GetBucketName(e) ==
    IF "Records" \notin DOMAIN e THEN [value |-> "", raised |-> Raise("KeyError", 9)]
    ELSE IF Len(e.Records) = 0 THEN [value |-> "", raised |-> Raise("IndexError", 9)]
    ELSE LET r == e.Records[1] IN
         IF \/ "s3" \notin DOMAIN r
            \/ "bucket" \notin DOMAIN r.s3
            \/ "name" \notin DOMAIN r.s3.bucket
         THEN [value |-> "", raised |-> Raise("KeyError", 9)]
         ELSE [value |-> r.s3.bucket.name, raised |-> NoException]

\* mutant: event['Records'][0]['s3']['object'].get('key', '')
GetObjectKeyOrDefault(e) ==
    IF "Records" \notin DOMAIN e THEN [value |-> "", raised |-> Raise("KeyError", 10)]
    ELSE IF Len(e.Records) = 0 THEN [value |-> "", raised |-> Raise("IndexError", 10)]
    ELSE LET r == e.Records[1] IN
         IF \/ "s3" \notin DOMAIN r
            \/ "object" \notin DOMAIN r.s3
         THEN [value |-> "", raised |-> Raise("KeyError", 10)]
         ELSE IF "key" \notin DOMAIN r.s3.object
         THEN [value |-> "", raised |-> NoException]
         ELSE [value |-> r.s3.object.key, raised |-> NoException]

\* mutant: event['Records'][-1]['s3']['object']['key']
GetObjectKeyOfLast(e) ==
    IF "Records" \notin DOMAIN e THEN [value |-> "", raised |-> Raise("KeyError", 10)]
    ELSE IF Len(e.Records) = 0 THEN [value |-> "", raised |-> Raise("IndexError", 10)]
    ELSE LET r == e.Records[Len(e.Records)] IN
         IF \/ "s3" \notin DOMAIN r
            \/ "object" \notin DOMAIN r.s3
            \/ "key" \notin DOMAIN r.s3.object
         THEN [value |-> "", raised |-> Raise("KeyError", 10)]
         ELSE [value |-> r.s3.object.key, raised |-> NoException]

\* line 10: event['Records'][0]['s3']['object']['key']
GetObjectKey(e) ==
    IF "Records" \notin DOMAIN e THEN [value |-> "", raised |-> Raise("KeyError", 10)]
    ELSE IF Len(e.Records) = 0 THEN [value |-> "", raised |-> Raise("IndexError", 10)]
    ELSE LET r == e.Records[1] IN
         IF \/ "s3" \notin DOMAIN r
            \/ "object" \notin DOMAIN r.s3
            \/ "key" \notin DOMAIN r.s3.object
         THEN [value |-> "", raised |-> Raise("KeyError", 10)]
         ELSE [value |-> r.s3.object.key, raised |-> NoException]

\* mutant: processed_data = data
TransformNone(s) == s

\* line 17
transform(s) == Upper(s)

\* mutant: 'id': {'S': 'object_key'}
NewItemLiteralId(key, processed) == [id |-> [S |-> "object_key"], data |-> [S |-> processed]]

\* lines 20-23
NewItem(key, processed) == [id |-> [S |-> key], data |-> [S |-> processed]]

TableName == "processed-data"

SuccessMessage ==
    <<"D", "a", "t", "a", " ", "p", "r", "o", "c", "e", "s", "s", "e", "d", " ",
      "s", "u", "c", "c", "e", "s", "s", "f", "u", "l", "l", "y", "!">>

\* mutant: 'body': 'Data processed successfully!'
SuccessResultPlainBody == [statusCode |-> 200, body |-> SuccessMessage]

\* lines 27-30
SuccessResult == [statusCode |-> 200, body |-> JsonDumps(SuccessMessage)]

-----------------------------------------------------------------------------
(* Inputs *)

Record(b, k) == [s3 |-> [bucket |-> [name |-> b], object |-> [key |-> k]]]
RecordNoName == [s3 |-> [bucket |-> EmptyDict, object |-> [key |-> "k1"]]]
RecordNoKey == [s3 |-> [bucket |-> [name |-> "b1"], object |-> EmptyDict]]

RecordEntries == {Record(b, k) : b \in Buckets, k \in Keys} \cup {RecordNoName, RecordNoKey}

\* the trigger events with no Records key or a Records list of up to n entries
EventsUpTo(n) ==
    {EmptyDict} \cup
    {[Records |-> rs] : rs \in UNION {[1..m -> RecordEntries] : m \in 0..n}}

\* the events with up to MaxRecords entries
Events == EventsUpTo(MaxRecords)

\* the events with at most one entry, well-formed or not
NotificationEvents == EventsUpTo(1)

\* the events S3 sends: one well-formed record
SingleEvents == {[Records |-> <<Record(b, k)>>] : b \in Buckets, k \in Keys}

RECURSIVE ByteStrings(_)
ByteStrings(n) ==
    IF n = 0 THEN {<<>>}
    ELSE LET shorter == ByteStrings(n - 1)
         IN  shorter \cup {Append(bs, b) : bs \in {x \in shorter : Len(x) = n - 1},
                                           b \in ByteAlphabet}

-----------------------------------------------------------------------------
(* Initial states *)

InitInvocations ==
    /\ table = {}
    /\ pc = [i \in Invocations |-> "idle"]
    /\ event = [i \in Invocations |-> EmptyDict]
    /\ bucket_name = [i \in Invocations |-> ""]
    /\ object_key = [i \in Invocations |-> ""]
    /\ response = [i \in Invocations |-> <<>>]
    /\ data = [i \in Invocations |-> <<>>]
    /\ processed_data = [i \in Invocations |-> <<>>]
    /\ result = [i \in Invocations |-> <<>>]
    /\ err = [i \in Invocations |-> NoException]
    /\ s3_calls = [i \in Invocations |-> <<>>]
    /\ dynamodb_calls = [i \in Invocations |-> <<>>]
    /\ steps = [i \in Invocations |-> <<>>]
    /\ last_put = EmptyDict

\* the buckets hold up to MaxObjects objects, each with one of the sample bodies
Init ==
    /\ bucket_objects \in
           UNION {[D -> SampleBodies] :
                      D \in {X \in SUBSET Objects : Cardinality(X) <= MaxObjects}}
    /\ InitInvocations

\* the buckets hold no object, or one object with one of the sample bodies
InitOne ==
    /\ bucket_objects \in
           {EmptyDict} \cup {[o \in {obj} |-> body] : obj \in Objects, body \in SampleBodies}
    /\ InitInvocations

\* the buckets hold one object, whose body is any byte string up to MaxLen
InitT ==
    /\ bucket_objects \in {[o \in {obj} |-> body] :
                               obj \in Objects, body \in ByteStrings(MaxLen)}
    /\ InitInvocations

-----------------------------------------------------------------------------
(* Actions: one per statement of lambda_handler that can be told apart from *)
(* outside (a call to S3 or DynamoDB, a raise, the return)                  *)

Fail(i, raised) ==
    /\ pc' = [pc EXCEPT ![i] = "failed"]
    /\ err' = [err EXCEPT ![i] = raised]

\* lines 7-10: the platform calls lambda_handler(event, context)
Invoke(i, e) ==
    /\ pc[i] \in {"idle", "done", "failed"}
    /\ LET b == GetBucketName(e)
           k == GetObjectKey(e)
           raised == IF b.raised # NoException THEN b.raised ELSE k.raised
       IN  /\ event' = [event EXCEPT ![i] = e]
           /\ bucket_name' = [bucket_name EXCEPT ![i] = b.value]
           /\ object_key' = [object_key EXCEPT ![i] =
                                IF b.raised = NoException THEN k.value ELSE ""]
           /\ pc' = [pc EXCEPT ![i] =
                        IF raised = NoException THEN "get_object" ELSE "failed"]
           /\ err' = [err EXCEPT ![i] = raised]
    /\ response' = [response EXCEPT ![i] = <<>>]
    /\ data' = [data EXCEPT ![i] = <<>>]
    /\ processed_data' = [processed_data EXCEPT ![i] = <<>>]
    /\ result' = [result EXCEPT ![i] = <<>>]
    /\ s3_calls' = [s3_calls EXCEPT ![i] = <<>>]
    /\ dynamodb_calls' = [dynamodb_calls EXCEPT ![i] = <<>>]
    /\ steps' = [steps EXCEPT ![i] = <<>>]
    /\ UNCHANGED <<bucket_objects, table, last_put>>

\* line 13: s3.get_object returns the object
GetObjectOk(i) ==
    /\ pc[i] = "get_object"
    /\ <<bucket_name[i], object_key[i]>> \in DOMAIN bucket_objects
    /\ response' = [response EXCEPT ![i] = bucket_objects[<<bucket_name[i], object_key[i]>>]]
    /\ s3_calls' = [s3_calls EXCEPT ![i] = Append(@, <<bucket_name[i], object_key[i]>>)]
    /\ steps' = [steps EXCEPT ![i] = Append(@, "get_object")]
    /\ pc' = [pc EXCEPT ![i] = "decode"]
    /\ UNCHANGED <<bucket_objects, table, last_put, event, bucket_name, object_key,
                   data, processed_data, result, err, dynamodb_calls>>

\* mutant: the error of get_object is caught and an empty body processed
GetObjectRaisesIgnored(i) ==
    /\ pc[i] = "get_object"
    /\ <<bucket_name[i], object_key[i]>> \notin DOMAIN bucket_objects
    /\ response' = [response EXCEPT ![i] = <<>>]
    /\ s3_calls' = [s3_calls EXCEPT ![i] = Append(@, <<bucket_name[i], object_key[i]>>)]
    /\ steps' = [steps EXCEPT ![i] = Append(@, "get_object")]
    /\ pc' = [pc EXCEPT ![i] = "decode"]
    /\ UNCHANGED <<bucket_objects, table, last_put, event, bucket_name, object_key,
                   data, processed_data, result, err, dynamodb_calls>>

\* line 13: s3.get_object raises: NoSuchKey for an object that does not exist,
\* a ClientError when S3 refuses or fails the request
GetObjectRaises(i) ==
    /\ pc[i] = "get_object"
    /\ s3_calls' = [s3_calls EXCEPT ![i] = Append(@, <<bucket_name[i], object_key[i]>>)]
    /\ steps' = [steps EXCEPT ![i] = Append(@, "get_object")]
    /\ Fail(i, Raise(IF <<bucket_name[i], object_key[i]>> \in DOMAIN bucket_objects
                     THEN "ClientError" ELSE "NoSuchKey", 13))
    /\ UNCHANGED <<bucket_objects, table, last_put, locals, result, dynamodb_calls>>

\* line 14: response['Body'].read().decode('utf-8') returns the text
DecodeOk(i) ==
    /\ pc[i] = "decode"
    /\ Utf8Decode(response[i]).ok
    /\ data' = [data EXCEPT ![i] = Utf8Decode(response[i]).text]
    /\ steps' = [steps EXCEPT ![i] = Append(@, "decode")]
    /\ pc' = [pc EXCEPT ![i] = "upper"]
    /\ UNCHANGED <<bucket_objects, table, last_put, event, bucket_name, object_key,
                   response, processed_data, result, err, s3_calls, dynamodb_calls>>

\* mutant: decode('utf-8', errors='replace')
DecodeReplacesErrors(i) ==
    /\ pc[i] = "decode"
    /\ ~Utf8Decode(response[i]).ok
    /\ data' = [data EXCEPT ![i] = <<65533>>]
    /\ steps' = [steps EXCEPT ![i] = Append(@, "decode")]
    /\ pc' = [pc EXCEPT ![i] = "upper"]
    /\ UNCHANGED <<bucket_objects, table, last_put, event, bucket_name, object_key,
                   response, processed_data, result, err, s3_calls, dynamodb_calls>>

\* line 14: the body is not UTF-8
DecodeRaises(i) ==
    /\ pc[i] = "decode"
    /\ ~Utf8Decode(response[i]).ok
    /\ steps' = [steps EXCEPT ![i] = Append(@, "decode")]
    /\ Fail(i, Raise("UnicodeDecodeError", 14))
    /\ UNCHANGED <<bucket_objects, table, last_put, locals, result, s3_calls,
                   dynamodb_calls>>

\* line 17: processed_data = data.upper()
Transform(i) ==
    /\ pc[i] = "upper"
    /\ processed_data' = [processed_data EXCEPT ![i] = transform(data[i])]
    /\ steps' = [steps EXCEPT ![i] = Append(@, "upper")]
    /\ pc' = [pc EXCEPT ![i] = "put_item"]
    /\ UNCHANGED <<bucket_objects, table, last_put, event, bucket_name, object_key,
                   response, data, result, err, s3_calls, dynamodb_calls>>

\* mutant: 'data': {'S': data}
PutItemOkRawData(i) ==
    /\ pc[i] = "put_item"
    /\ LET item == NewItem(object_key[i], data[i])
       IN  /\ table' = PutItem(table, item)
           /\ dynamodb_calls' = [dynamodb_calls EXCEPT ![i] =
                                    Append(@, [TableName |-> TableName, Item |-> item])]
    /\ last_put' = [k \in DOMAIN last_put \cup {object_key[i]} |->
                       IF k = object_key[i] THEN i ELSE last_put[k]]
    /\ steps' = [steps EXCEPT ![i] = Append(@, "put_item")]
    /\ pc' = [pc EXCEPT ![i] = "return"]
    /\ UNCHANGED <<bucket_objects, locals, result, err, s3_calls>>

\* mutant: 'id': {'S': bucket_name}
PutItemOkKeyedByBucket(i) ==
    /\ pc[i] = "put_item"
    /\ LET item == NewItem(bucket_name[i], processed_data[i])
       IN  /\ table' = PutItem(table, item)
           /\ dynamodb_calls' = [dynamodb_calls EXCEPT ![i] =
                                    Append(@, [TableName |-> TableName, Item |-> item])]
    /\ last_put' = [k \in DOMAIN last_put \cup {object_key[i]} |->
                       IF k = object_key[i] THEN i ELSE last_put[k]]
    /\ steps' = [steps EXCEPT ![i] = Append(@, "put_item")]
    /\ pc' = [pc EXCEPT ![i] = "return"]
    /\ UNCHANGED <<bucket_objects, locals, result, err, s3_calls>>

\* mutant: the item is stored only when the table holds none with its id
PutItemOkIfAbsent(i) ==
    /\ pc[i] = "put_item"
    /\ LET item == NewItem(object_key[i], processed_data[i])
       IN  /\ table' = IF \E it \in table : it.id = item.id THEN table
                       ELSE PutItem(table, item)
           /\ dynamodb_calls' = [dynamodb_calls EXCEPT ![i] =
                                    Append(@, [TableName |-> TableName, Item |-> item])]
    /\ last_put' = [k \in DOMAIN last_put \cup {object_key[i]} |->
                       IF k = object_key[i] THEN i ELSE last_put[k]]
    /\ steps' = [steps EXCEPT ![i] = Append(@, "put_item")]
    /\ pc' = [pc EXCEPT ![i] = "return"]
    /\ UNCHANGED <<bucket_objects, locals, result, err, s3_calls>>

\* lines 20-24: dynamodb.put_item stores the item
PutItemOk(i) ==
    /\ pc[i] = "put_item"
    /\ LET item == NewItem(object_key[i], processed_data[i])
       IN  /\ table' = PutItem(table, item)
           /\ dynamodb_calls' = [dynamodb_calls EXCEPT ![i] =
                                    Append(@, [TableName |-> TableName, Item |-> item])]
    /\ last_put' = [k \in DOMAIN last_put \cup {object_key[i]} |->
                       IF k = object_key[i] THEN i ELSE last_put[k]]
    /\ steps' = [steps EXCEPT ![i] = Append(@, "put_item")]
    /\ pc' = [pc EXCEPT ![i] = "return"]
    /\ UNCHANGED <<bucket_objects, locals, result, err, s3_calls>>

\* lines 20-24: dynamodb.put_item raises a ClientError and stores nothing
PutItemRaises(i) ==
    /\ pc[i] = "put_item"
    /\ dynamodb_calls' = [dynamodb_calls EXCEPT ![i] =
           Append(@, [TableName |-> TableName,
                      Item |-> NewItem(object_key[i], processed_data[i])])]
    /\ steps' = [steps EXCEPT ![i] = Append(@, "put_item")]
    /\ Fail(i, Raise("ClientError", 24))
    /\ UNCHANGED <<bucket_objects, table, last_put, locals, result, s3_calls>>

\* lines 27-30: return the success dict
Return(i) ==
    /\ pc[i] = "return"
    /\ result' = [result EXCEPT ![i] = <<SuccessResult>>]
    /\ steps' = [steps EXCEPT ![i] = Append(@, "return")]
    /\ pc' = [pc EXCEPT ![i] = "done"]
    /\ UNCHANGED <<bucket_objects, table, last_put, locals, err, s3_calls,
                   dynamodb_calls>>

-----------------------------------------------------------------------------
(* Specifications *)

\* one execution environment: the events arrive one after the other
Next ==
    \/ \E e \in NotificationEvents : Invoke(SeqInv, e)
    \/ GetObjectOk(SeqInv)
    \/ GetObjectRaises(SeqInv)
    \/ DecodeOk(SeqInv)
    \/ DecodeRaises(SeqInv)
    \/ Transform(SeqInv)
    \/ PutItemOk(SeqInv)
    \/ PutItemRaises(SeqInv)
    \/ Return(SeqInv)

Spec == Init /\ [][Next]_vars

\* one execution environment, given events of several Records entries
NextRecords ==
    \/ \E e \in Events : Invoke(SeqInv, e)
    \/ GetObjectOk(SeqInv)
    \/ GetObjectRaises(SeqInv)
    \/ DecodeOk(SeqInv)
    \/ DecodeRaises(SeqInv)
    \/ Transform(SeqInv)
    \/ PutItemOk(SeqInv)
    \/ PutItemRaises(SeqInv)
    \/ Return(SeqInv)

SpecRecords == InitOne /\ [][NextRecords]_vars

\* two execution environments: the statements of their invocations interleave
NextConc ==
    \/ \E i \in Invocations, e \in SingleEvents : Invoke(i, e)
    \/ \E i \in Invocations : GetObjectOk(i)
    \/ \E i \in Invocations : GetObjectRaises(i)
    \/ \E i \in Invocations : DecodeOk(i)
    \/ \E i \in Invocations : DecodeRaises(i)
    \/ \E i \in Invocations : Transform(i)
    \/ \E i \in Invocations : PutItemOk(i)
    \/ \E i \in Invocations : PutItemRaises(i)
    \/ \E i \in Invocations : Return(i)

SpecConc == Init /\ [][NextConc]_vars

\* one execution environment, over every object body up to MaxLen
NextT ==
    \/ \E e \in SingleEvents : Invoke(SeqInv, e)
    \/ GetObjectOk(SeqInv)
    \/ GetObjectRaises(SeqInv)
    \/ DecodeOk(SeqInv)
    \/ DecodeRaises(SeqInv)
    \/ Transform(SeqInv)
    \/ PutItemOk(SeqInv)
    \/ PutItemRaises(SeqInv)
    \/ Return(SeqInv)

SpecT == InitT /\ [][NextT]_vars

-----------------------------------------------------------------------------
(* What the claims speak of, read off the event and the stores *)

HasFirstRecord(e) == "Records" \in DOMAIN e /\ Len(e.Records) >= 1

\* the notification names a bucket and an object key
ValidNotification(e) ==
    /\ HasFirstRecord(e)
    /\ "s3" \in DOMAIN e.Records[1]
    /\ "bucket" \in DOMAIN e.Records[1].s3
    /\ "name" \in DOMAIN e.Records[1].s3.bucket
    /\ "object" \in DOMAIN e.Records[1].s3
    /\ "key" \in DOMAIN e.Records[1].s3.object

NotifiedBucket(e) == e.Records[1].s3.bucket.name
NotifiedKey(e) == e.Records[1].s3.object.key
NotifiedObject(e) == <<NotifiedBucket(e), NotifiedKey(e)>>

Invoked(i) == pc[i] # "idle"

RecordsOf(tbl, k) == {it \in tbl : it.id.S = k}

Running == {"get_object", "decode", "upper", "put_item", "return"}

StatementOrder == <<"get_object", "decode", "upper", "put_item", "return">>

-----------------------------------------------------------------------------
(* Claims *)

\* C1: an invocation for a valid notification of an existing object whose body
\* decodes to s, once it has run to completion, has put into the table
\* 'processed-data' a record with id = objectKey and data = uppercase(s), which
\* the table holds, and has returned a result with statusCode 200.
C1_StoresUppercasedRecord ==
    \A i \in Invocations :
        ( /\ pc[i] = "done"
          /\ ValidNotification(event[i])
          /\ NotifiedObject(event[i]) \in DOMAIN bucket_objects
          /\ Utf8Decode(bucket_objects[NotifiedObject(event[i])]).ok )
        => LET s == Utf8Decode(bucket_objects[NotifiedObject(event[i])]).text
               rec == [id |-> [S |-> NotifiedKey(event[i])], data |-> [S |-> Upper(s)]]
           IN  /\ rec \in table
               /\ dynamodb_calls[i] = <<[TableName |-> "processed-data", Item |-> rec]>>
               /\ Len(result[i]) = 1
               /\ result[i][1].statusCode = 200

\* the object "aß" of bucket b1 was processed: the table holds "ASS" under its key
C1_Witness ==
    /\ pc[SeqInv] = "done"
    /\ bucket_name[SeqInv] = "b1"
    /\ <<"b1", object_key[SeqInv]>> \in DOMAIN bucket_objects
    /\ bucket_objects[<<"b1", object_key[SeqInv]>>] = <<97, 195, 159>>
    /\ [id |-> [S |-> object_key[SeqInv]], data |-> [S |-> <<65, 83, 83>>]] \in table

\* C2 as stated: on success the body is exactly the 29 characters
\* Data processed successfully!, from D to !, with no quote characters added.
C2_BodyIsBareMessage ==
    \A i \in Invocations :
        result[i] # <<>> =>
            LET body == result[i][1].body
            IN  /\ Len(body) = 29
                /\ body[1] = "D"
                /\ body[Len(body)] = "!"
                /\ "\"" \notin {body[n] : n \in 1..Len(body)}

\* C2 amended: on success the body is the JSON encoding of the message: the 28
\* characters Data processed successfully! between two double-quote
\* characters, 30 characters in all.
C2_BodyIsJsonEncodedMessage ==
    \A i \in Invocations :
        result[i] # <<>> =>
            LET body == result[i][1].body
            IN  /\ Len(body) = 30
                /\ body[1] = "\""
                /\ body[30] = "\""
                /\ SubSeq(body, 2, 29) =
                       <<"D", "a", "t", "a", " ",
                         "p", "r", "o", "c", "e", "s", "s", "e", "d", " ",
                         "s", "u", "c", "c", "e", "s", "s", "f", "u", "l", "l", "y", "!">>

C2_Witness ==
    /\ pc[SeqInv] = "done"
    /\ result[SeqInv] # <<>>
    /\ result[SeqInv][1].body[2] = "D"

\* C3: an invocation for a notification of an object that does not exist fails
\* at get_object with a storage-read error, returns no result and makes no
\* put_item call, and none of its steps changes the table.
C3_MissingObjectFailsWithoutWrite ==
    /\ [](\A i \in Invocations :
            ( /\ Invoked(i)
              /\ ValidNotification(event[i])
              /\ NotifiedObject(event[i]) \notin DOMAIN bucket_objects )
            => /\ pc[i] \in {"get_object", "failed"}
               /\ dynamodb_calls[i] = <<>>
               /\ result[i] = <<>>
               /\ pc[i] = "failed" => err[i] = <<[type |-> "NoSuchKey", line |-> 13]>>)
    /\ [][\A i \in Invocations :
            ( /\ pc'[i] # pc[i]
              /\ ValidNotification(event'[i])
              /\ NotifiedObject(event'[i]) \notin DOMAIN bucket_objects )
            => table' = table]_vars

\* the read of a missing object failed while the table held a record
C3_Witness ==
    /\ pc[SeqInv] = "failed"
    /\ err[SeqInv] = <<[type |-> "NoSuchKey", line |-> 13]>>
    /\ s3_calls[SeqInv] # <<>>
    /\ table # {}

\* C4: an invocation whose notification lacks the bucket name or the object key
\* (or has no Records entry at all) fails with a KeyError or an IndexError of
\* line 9 or 10, having made no get_object and no put_item call.
C4_MalformedInputFailsBeforeIO ==
    \A i \in Invocations :
        (Invoked(i) /\ ~ValidNotification(event[i]))
        => /\ pc[i] = "failed"
           /\ Len(err[i]) = 1
           /\ err[i][1].type \in {"KeyError", "IndexError"}
           /\ err[i][1].line \in {9, 10}
           /\ s3_calls[i] = <<>>
           /\ dynamodb_calls[i] = <<>>
           /\ steps[i] = <<>>
           /\ result[i] = <<>>

\* a notification with a bucket name and no object key failed at line 10
C4_Witness ==
    /\ pc[SeqInv] = "failed"
    /\ HasFirstRecord(event[SeqInv])
    /\ event[SeqInv].Records[1] = RecordNoKey
    /\ err[SeqInv] = <<[type |-> "KeyError", line |-> 10]>>

\* C5: the table never holds two records with the same id, and a put_item that
\* succeeds for an object key leaves exactly one record with that id, whose
\* data is the uppercased body of the notified object, adding a record to the
\* table only when the key had none.
C5_OneRecordPerIdOverwritten ==
    /\ [](\A a, b \in table : a.id = b.id => a = b)
    /\ [][\A i \in Invocations :
            (pc[i] = "put_item" /\ pc'[i] = "return")
            => LET k == NotifiedKey(event[i])
                   s == Utf8Decode(bucket_objects[NotifiedObject(event[i])]).text
               IN  /\ RecordsOf(table', k) = {[id |-> [S |-> k], data |-> [S |-> Upper(s)]]}
                   /\ Cardinality(table') =
                          Cardinality(table) + (IF RecordsOf(table, k) = {} THEN 1 ELSE 0)]_vars

\* both invocations completed for the same key with different bodies; the
\* record of the first writer was replaced by the record of the second
C5_Witness ==
    /\ pc["inv1"] = "done" /\ pc["inv2"] = "done"
    /\ object_key["inv1"] = object_key["inv2"]
    /\ processed_data["inv1"] # processed_data["inv2"]
    /\ last_put[object_key["inv1"]] = "inv2"
    /\ RecordsOf(table, object_key["inv1"]) =
           {[id |-> [S |-> object_key["inv2"]], data |-> [S |-> processed_data["inv2"]]]}

\* C6: an invocation for an event with more than one Records entry calls
\* get_object and put_item only for the bucket and key of the first entry, and
\* no later entry, malformed or not, makes it fail at lines 9-10.
C6_OnlyFirstRecordConsumed ==
    \A i \in Invocations :
        ( /\ Invoked(i)
          /\ "Records" \in DOMAIN event[i]
          /\ Len(event[i].Records) > 1
          /\ ValidNotification(event[i]) )
        => /\ \A n \in 1..Len(s3_calls[i]) : s3_calls[i][n] = NotifiedObject(event[i])
           /\ \A n \in 1..Len(dynamodb_calls[i]) :
                  dynamodb_calls[i][n].Item.id.S = NotifiedKey(event[i])
           /\ Len(s3_calls[i]) <= 1
           /\ Len(dynamodb_calls[i]) <= 1
           /\ pc[i] = "failed" => err[i][1].line \notin {9, 10}
           /\ pc[i] \in {"put_item", "return", "done"} =>
                  s3_calls[i] = <<NotifiedObject(event[i])>>
           /\ pc[i] = "done" => Len(dynamodb_calls[i]) = 1

\* an event whose second entry has no bucket name was processed to the end
C6_Witness ==
    /\ pc[SeqInv] = "done"
    /\ HasFirstRecord(event[SeqInv])
    /\ Len(event[SeqInv].Records) = 2
    /\ event[SeqInv].Records[2] = RecordNoName
    /\ s3_calls[SeqInv] = <<NotifiedObject(event[SeqInv])>>
    /\ Len(dynamodb_calls[SeqInv]) = 1

\* C7: when two invocations for the same object key have both completed, in
\* whatever order their steps interleaved, the table holds exactly one record
\* for the key, with the uppercased text read by the invocation whose put_item
\* came last; and an invocation at get_object or put_item can always take its
\* step, whatever the other invocation is doing.
C7_LastWriteWins ==
    /\ \A i, j \in Invocations :
        ( /\ i # j
          /\ pc[i] = "done" /\ pc[j] = "done"
          /\ NotifiedKey(event[i]) = NotifiedKey(event[j]) )
        => LET k == NotifiedKey(event[i])
           IN  /\ k \in DOMAIN last_put
               /\ last_put[k] \in {i, j}
               /\ RecordsOf(table, k) =
                      {[id |-> [S |-> k], data |-> [S |-> Upper(data[last_put[k]])]]}
    /\ \A i \in Invocations :
        /\ pc[i] = "put_item" => ENABLED PutItemOk(i)
        /\ (pc[i] = "get_object" /\ NotifiedObject(event[i]) \in DOMAIN bucket_objects)
               => ENABLED GetObjectOk(i)

\* inv1 wrote last, over the different record inv2 had put for the same key
C7_Witness ==
    /\ pc["inv1"] = "done" /\ pc["inv2"] = "done"
    /\ object_key["inv1"] = object_key["inv2"]
    /\ bucket_name["inv1"] # bucket_name["inv2"]
    /\ Upper(data["inv1"]) # Upper(data["inv2"])
    /\ last_put[object_key["inv1"]] = "inv1"
    /\ [id |-> [S |-> object_key["inv1"]], data |-> [S |-> Upper(data["inv1"])]] \in table

\* C8: the statements of an invocation run in the order get_object, decode,
\* upper, put_item, return, each at most once; put_item is called only after
\* get_object returned a body that decodes; an invocation that failed has no
\* result, ran no statement after the one that raised, and runs none until it
\* is invoked anew; a completed invocation made exactly one get_object and one
\* put_item call.
C8_StepsInOrderOnceNoRetry ==
    /\ [](\A i \in Invocations :
            /\ Len(steps[i]) <= Len(StatementOrder)
            /\ steps[i] = SubSeq(StatementOrder, 1, Len(steps[i]))
            /\ Len(s3_calls[i]) <= 1
            /\ Len(dynamodb_calls[i]) <= 1
            /\ dynamodb_calls[i] # <<>> =>
                   /\ Len(s3_calls[i]) = 1
                   /\ s3_calls[i][1] \in DOMAIN bucket_objects
                   /\ Utf8Decode(bucket_objects[s3_calls[i][1]]).ok
            /\ pc[i] = "failed" =>
                   /\ result[i] = <<>>
                   /\ Len(err[i]) = 1
                   /\ err[i][1].line = 13 => steps[i] = <<"get_object">>
                   /\ err[i][1].line = 14 => steps[i] = <<"get_object", "decode">>
                   /\ err[i][1].line = 24 =>
                          steps[i] = <<"get_object", "decode", "upper", "put_item">>
            /\ pc[i] = "done" =>
                   /\ steps[i] = StatementOrder
                   /\ Len(s3_calls[i]) = 1
                   /\ Len(dynamodb_calls[i]) = 1
                   /\ err[i] = NoException
                   /\ result[i] # <<>>
            /\ result[i] # <<>> => pc[i] = "done")
    /\ [][\A i \in Invocations :
            (pc[i] = "failed" /\ <<pc[i], steps[i], s3_calls[i], dynamodb_calls[i]>>
                                   # <<pc'[i], steps'[i], s3_calls'[i], dynamodb_calls'[i]>>)
            => /\ steps'[i] = <<>>
               /\ s3_calls'[i] = <<>>
               /\ dynamodb_calls'[i] = <<>>
               /\ table' = table]_vars

\* put_item raised after the read, the decode and the transform
C8_Witness ==
    /\ pc[SeqInv] = "failed"
    /\ err[SeqInv] = <<[type |-> "ClientError", line |-> 24]>>
    /\ steps[SeqInv] = <<"get_object", "decode", "upper", "put_item">>
    /\ Len(s3_calls[SeqInv]) = 1
    /\ Len(dynamodb_calls[SeqInv]) = 1

\* C9: the text the handler computes from the decoded body s is uppercase(s),
\* transforming it again changes nothing, and so the data of every record of
\* the table and of every put_item call is a fixed point of the transform.
C9_TransformIsIdempotentUppercase ==
    /\ \A i \in Invocations :
        Len(steps[i]) >= 3 =>
            /\ processed_data[i] = Upper(data[i])
            /\ transform(processed_data[i]) = processed_data[i]
    /\ \A o \in DOMAIN bucket_objects :
        Utf8Decode(bucket_objects[o]).ok =>
            LET s == Utf8Decode(bucket_objects[o]).text
            IN  transform(transform(s)) = transform(s)
    /\ \A it \in table : transform(it.data.S) = it.data.S
    /\ \A i \in Invocations : \A n \in 1..Len(dynamodb_calls[i]) :
        transform(dynamodb_calls[i][n].Item.data.S) = dynamodb_calls[i][n].Item.data.S

\* the body "ßa" was stored as "SSA": the transform changed its length
C9_Witness ==
    /\ pc[SeqInv] = "done"
    /\ data[SeqInv] = <<223, 97>>
    /\ [id |-> [S |-> object_key[SeqInv]], data |-> [S |-> <<83, 83, 65>>]] \in table

\* C10: a step of an invocation for object key k leaves every table record
\* whose id is not k as it was, and no step changes the objects of the buckets.
C10_OnlyOwnRecordChanges ==
    [][/\ bucket_objects' = bucket_objects
       /\ \A i \in Invocations :
            <<pc[i], steps[i]>> # <<pc'[i], steps'[i]>> =>
                LET k == NotifiedKey(event'[i])
                IN  {it \in table : it.id.S # k} = {it \in table' : it.id.S # k}]_vars

\* inv1 completed for one key while the table keeps inv2's record for the other
C10_Witness ==
    /\ pc["inv1"] = "done"
    /\ object_key["inv1"] # object_key["inv2"]
    /\ pc["inv2"] = "failed"
    /\ last_put = [k \in {object_key["inv1"], object_key["inv2"]} |->
                      IF k = object_key["inv1"] THEN "inv1" ELSE "inv2"]
    /\ \E it \in table : it.id.S = object_key["inv2"]
    /\ \E it \in table : it.id.S = object_key["inv1"]

====
